---- MODULE Spec2Model ----
(***************************************************************************)
(* Base: the model layer every other model inherits from (src/Base.js).    *)
(* A model definition declares properties, hasMany and hasOne relations;   *)
(* an instance keeps its values in a private store (_data) behind          *)
(* accessors, emits a local event per write and a 'sync' event on the      *)
(* process bus for sync-enabled properties.                                *)
(*                                                                         *)
(* Every handler of the program runs to completion synchronously, so one   *)
(* action of this module is one whole call (a construction, an assignment, *)
(* an inbound sync), computed by operators over a "world" record that      *)
(* holds the heap, the bus log and the pending exception.                  *)
(***************************************************************************)
EXTENDS Integers, Sequences, FiniteSets, TLC

VARIABLES
  decls,      \* the property declaration objects (shared by reference)
  defs,       \* the model definitions: Base, ChildModel, Model
  heap,       \* the instances created so far
  colls,      \* the collections created so far (has-many values)
  registry,   \* instances for which 'registry:add' was emitted
  uuid,       \* number of ids the generator has produced
  arrays,     \* number of arrays created by array literals
  log,        \* what the last call did, in order (stores and emitted events)
  thrown,     \* how the last call ended: nothing thrown, an error, an array
  op,         \* the last call and its arguments
  calls       \* number of calls made since the module was loaded

vars == <<decls, defs, heap, colls, registry, uuid, arrays, log, thrown, op, calls>>

-----------------------------------------------------------------------------
(* Bounds of the model                                                     *)

\* longest raw list given under a has-many name
MaxChildren == 2
\* number of calls made on the constructed model
MaxOps == 2
\* number of definitions derived after the module is loaded
MaxDerived == 2

-----------------------------------------------------------------------------
(* JavaScript values.  Every value is a record [k, n] so that any two      *)
(* values can be compared: k is the kind, n tells values of a kind apart   *)
(* (the object's number for objects, instances and collections).           *)

Undef   == [k |-> "undefined", n |-> 0]
\* Str(0) is the empty string
Str(n)  == [k |-> "string", n |-> n]
Num(n)  == [k |-> "number", n |-> n]
Bool(n) == [k |-> "boolean", n |-> n]
Obj(n)  == [k |-> "object", n |-> n]
Ref(n)  == [k |-> "model", n |-> n]
Coll(n) == [k |-> "collection", n |-> n]
\* the n-th array created at run time; array 0 is the literal of a declaration
Arr(n)  == [k |-> "array", n |-> n]

\* the string uuid.v4() returns on its c-th call; strings below 100 are literals
UuidStr(c) == Str(100 + c)

\* NaN, the result of arithmetic on a value that is not a number
NaN == [k |-> "number", n |-> -1]

\* the text a value is converted to when it is concatenated, as a number below
\* 1000: literal and generated strings by their own number
Text(v) ==
  CASE v.k = "string"    -> v.n
    [] v.k = "number"    -> 500 + v.n
    [] v.k = "boolean"   -> 950 + v.n
    [] OTHER             -> 900

\* a + "@" + b + ".com": one string per pair of texts
Mail(a, b) == Str(1000000 + 1000 * Text(a) + Text(b))

\* value * 100
Times100(v) == IF v.k = "number" /\ v # NaN THEN Num(v.n * 100) ELSE NaN

\* JavaScript truthiness of a value (the test `if (value)` of the edit setter)
Truthy(v) ==
  CASE v.k = "undefined" -> FALSE
    [] v.k = "boolean"   -> v.n = 1
    [] v.k = "number"    -> v.n # 0
    [] v.k = "string"    -> v.n # 0
    [] OTHER             -> TRUE

-----------------------------------------------------------------------------
(* Declared types                                                          *)

NoType      == [t |-> "none", d |-> ""]
Prim(s)     == [t |-> "prim", d |-> s]
ModelT(d)   == [t |-> "model", d |-> d]
CollectionT == [t |-> "collection", d |-> ""]

-----------------------------------------------------------------------------
(* Property declarations.  get/set are "absent", "identity" or the name of *)
(* a function of the schema; on is the list of (watched property, observer)*)
(* pairs; enumerable records whether the declaration has the key; a        *)
(* defaultValue of undefined is an absent default.                         *)

EmptyDecl ==
  [type |-> NoType, defaultValue |-> Undef, sync |-> FALSE,
   get |-> "absent", set |-> "absent", on |-> <<>>, enumerable |-> "absent"]

\* Base.properties.value: id, edit, locked
IdDecl == [EmptyDecl EXCEPT !.type = Prim("string"), !.enumerable = "false"]
EditDecl ==
  [EmptyDecl EXCEPT !.type = Prim("boolean"),
                    !.defaultValue = Bool(0), !.set = "editSet", !.enumerable = "false"]
LockedDecl ==
  [EmptyDecl EXCEPT !.type = Prim("boolean"),
                    !.defaultValue = Bool(0), !.sync = TRUE,
                    !.on = <<[watch |-> "edit", obs |-> "lockedOnEdit"]>>,
                    !.enumerable = "false"]

\* the declarations of the models built on Base (the test suite's ChildModel and Model)
NameDecl       == [EmptyDecl EXCEPT !.type = Prim("string")]
AnyTestDecl    == EmptyDecl
StringTestDecl == [EmptyDecl EXCEPT !.type = Prim("string")]
NumberTestDecl == [EmptyDecl EXCEPT !.type = Prim("number")]
SyncTestDecl   == [EmptyDecl EXCEPT !.sync = TRUE]
OnTestDecl     == [EmptyDecl EXCEPT !.on = <<[watch |-> "anyTest", obs |-> "onTestOnAnyTest"]>>]
ModelTestDecl  == [EmptyDecl EXCEPT !.type = ModelT("ChildModel"), !.sync = TRUE]

\* the declaration objects, by number
InitialDecls ==
  <<IdDecl, EditDecl, LockedDecl, NameDecl, AnyTestDecl, StringTestDecl,
    NumberTestDecl, SyncTestDecl, OnTestDecl, ModelTestDecl>>

\* a dictionary is an ordered list of entries; d is the declaration object of
\* a property entry, rel the child definition of a relation entry
Prop(name, d)  == [name |-> name, d |-> d, rel |-> ""]
Rel(name, rel) == [name |-> name, d |-> 0, rel |-> rel]

Keys(dict) == {dict[i].name : i \in 1..Len(dict)}
Entry(dict, name) == dict[CHOOSE i \in 1..Len(dict) : dict[i].name = name]

\* Base as Proto.extend leaves it: its own properties, no relations
BaseDefinition ==
  [parent |-> "", EDIT_EVENT |-> "null",
   properties |-> <<Prop("id", 1), Prop("edit", 2), Prop("locked", 3)>>,
   hasMany |-> <<>>, hasOne |-> <<>>]

\* the definition objects handed to Base.extend
ChildModelSource ==
  [parent |-> "Base", EDIT_EVENT |-> "null",
   properties |-> <<Prop("name", 4)>>, hasMany |-> <<>>, hasOne |-> <<>>]
ModelSource ==
  [parent |-> "Base", EDIT_EVENT |-> "editTest",
   properties |-> <<Prop("anyTest", 5), Prop("stringTest", 6), Prop("numberTest", 7),
                    Prop("syncTest", 8), Prop("onTest", 9), Prop("modelTest", 10)>>,
   hasMany |-> <<Rel("children", "ChildModel")>>,
   hasOne |-> <<Rel("onInit", "ChildModel")>>]

\* a merge in which a later entry replaces the one already in the accumulator
RECURSIVE mergeLastWins(_, _)
mergeLastWins(acc, rest) ==
  IF rest = <<>> THEN acc
  ELSE mergeLastWins(
         IF rest[1].name \in Keys(acc)
         THEN [j \in 1..Len(acc) |-> IF acc[j].name = rest[1].name THEN rest[1] ELSE acc[j]]
         ELSE Append(acc, rest[1]),
         Tail(rest))

\* reduce(chain([derived, base]), ...): an entry is kept unless its key is
\* already in the accumulator
RECURSIVE mergeInto(_, _)
mergeInto(acc, rest) ==
  IF rest = <<>> THEN acc
  ELSE mergeInto(IF rest[1].name \in Keys(acc) THEN acc ELSE Append(acc, rest[1]),
                 Tail(rest))

\* __preCreate__(definition) with this = base: each of the three dictionaries
\* of the definition is replaced by the merge of its own entries and the base's
preCreate(definition, base) ==
  [definition EXCEPT
     !.properties = mergeInto(<<>>, definition.properties \o base.properties),
     !.hasMany    = mergeInto(<<>>, definition.hasMany \o base.hasMany),
     !.hasOne     = mergeInto(<<>>, definition.hasOne \o base.hasOne)]

InitialDefs ==
  [d \in {"Base", "ChildModel", "Model"} |->
     CASE d = "Base"       -> BaseDefinition
       [] d = "ChildModel" -> preCreate(ChildModelSource, BaseDefinition)
       [] d = "Model"      -> preCreate(ModelSource, BaseDefinition)]

\* the prototype chain of an object created from definition d
RECURSIVE Chain(_, _)
Chain(ds, d) == IF d = "" \/ d \notin DOMAIN ds THEN {} ELSE {d} \cup Chain(ds, ds[d].parent)

\* declarations of definitions derived later: an array default, and an id
\* declared again (without enumerable: false)
TagsDecl  == [EmptyDecl EXCEPT !.defaultValue = Arr(0)]
OwnIdDecl == [EmptyDecl EXCEPT !.type = Prim("string")]

\* declarations with a custom getter and a custom setter (the test suite's
\* getTest and setTest)
GetTestDecl == [EmptyDecl EXCEPT !.get = "getTestGet"]
SetTestDecl == [EmptyDecl EXCEPT !.set = "setTestSet"]

\* the definition object of a model with custom transforms
TransformSource ==
  [properties |-> <<[name |-> "getTest", decl |-> GetTestDecl],
                    [name |-> "setTest", decl |-> SetTestDecl]>>,
   hasMany |-> <<>>, hasOne |-> <<>>]

\* the definition object of a model that declares the observing property
\* before the property it watches
WatcherSource ==
  [properties |-> <<[name |-> "onTest", decl |-> OnTestDecl],
                    [name |-> "anyTest", decl |-> AnyTestDecl]>>,
   hasMany |-> <<Rel("children", "ChildModel")>>, hasOne |-> <<>>]

\* the definition object of a model that declares edit again, sync-enabled;
\* the observer of locked still watches it
SyncEditDecl == [EditDecl EXCEPT !.sync = TRUE]
SyncEditSource ==
  [properties |-> <<[name |-> "edit", decl |-> SyncEditDecl]>>,
   hasMany |-> <<>>, hasOne |-> <<>>]

\* the definition object of a model whose properties have defaults: a watched
\* property declared after its observer, a default that is not of the declared
\* type, a sync-enabled property and one with a custom setter
DefaultsSource ==
  [properties |->
     <<[name |-> "onTest", decl |-> OnTestDecl],
       [name |-> "anyTest", decl |-> [AnyTestDecl EXCEPT !.defaultValue = Num(100)]],
       [name |-> "stringTest", decl |-> [StringTestDecl EXCEPT !.defaultValue = Num(1)]],
       [name |-> "syncTest", decl |-> [SyncTestDecl EXCEPT !.defaultValue = Str(1)]],
       [name |-> "setTest", decl |-> [SetTestDecl EXCEPT !.defaultValue = Num(1)]]>>,
   hasMany |-> <<>>, hasOne |-> <<>>]

\* the definition objects handed to extend() after the module is loaded; decl
\* is the declaration literal of a property
ExtendSources ==
  {[properties |-> <<[name |-> "tags", decl |-> TagsDecl]>>,
    hasMany |-> <<>>, hasOne |-> <<>>],
   [properties |-> <<[name |-> "id", decl |-> OwnIdDecl]>>,
    hasMany |-> <<Rel("children", "Base")>>, hasOne |-> <<>>],
   [properties |-> <<>>,
    hasMany |-> <<Rel("items", "ChildModel")>>, hasOne |-> <<Rel("onInit", "Base")>>]}

\* the names of the definitions derived later, in the order they are derived
DerivedName(k) == <<"D1", "D2", "D3", "D4">>[k]

\* parent.extend(source): the declaration literals become new declaration
\* objects, and __preCreate__ merges the dictionaries with the parent's
extend(w, name, parent, source) ==
  LET n == Len(w.decls)
      definition ==
        [parent |-> parent, EDIT_EVENT |-> w.defs[parent].EDIT_EVENT,
         properties |-> [j \in 1..Len(source.properties) |->
                           Prop(source.properties[j].name, n + j)],
         hasMany |-> source.hasMany, hasOne |-> source.hasOne]
  IN  [w EXCEPT !.decls = @ \o [j \in 1..Len(source.properties) |->
                                  source.properties[j].decl],
                !.defs = (name :> preCreate(definition, w.defs[parent])) @@ @]

-----------------------------------------------------------------------------
(* Raw data.  A raw record has plain fields (name -> value) and lists      *)
(* (name -> list of values, the records under a has-many name).  prim      *)
(* marks a truthy primitive passed where a record is expected: it has no   *)
(* own keys and ignores writes.                                            *)

NoFields == [x \in {} |-> Undef]
NoLists  == [x \in {} |-> <<>>]
EmptyRaw == [fields |-> NoFields, lists |-> NoLists, prim |-> FALSE]
Fields(f) == [fields |-> f, lists |-> NoLists, prim |-> FALSE]

\* the raw child records a caller passes, by object number:
\* {name: "si"}, {name: 10}, {id: 5, name: "sarah"}, {}
ChildRaws ==
  <<Fields("name" :> Str(1)),
    Fields("name" :> Num(10)),
    Fields(("id" :> Num(5)) @@ ("name" :> Str(2))),
    Fields(NoFields)>>

\* data = data || {} : the record a value stands for when it is used as raw data
rawOf(v) ==
  CASE v.k = "object" /\ v.n \in 1..Len(ChildRaws) -> ChildRaws[v.n]
    [] Truthy(v) -> [EmptyRaw EXCEPT !.prim = TRUE]
    [] OTHER     -> EmptyRaw

hasOwnKey(name, raw) == name \in DOMAIN raw.fields \/ name \in DOMAIN raw.lists
field(raw, name) == IF name \in DOMAIN raw.fields THEN raw.fields[name] ELSE Undef
list(raw, name)  == IF name \in DOMAIN raw.lists THEN raw.lists[name] ELSE <<>>

-----------------------------------------------------------------------------
(* The world a call runs in                                                *)

None == [kind |-> "none", errs |-> <<>>]
\* one thrown error: what it is, and the instance, property and value it is about
Err(what, i, name, v) == [what |-> what, inst |-> i, name |-> name, val |-> v]
Throw(w, e)      == [w EXCEPT !.thrown = [kind |-> "error", errs |-> <<e>>]]
ThrowArray(w, es) == [w EXCEPT !.thrown = [kind |-> "array", errs |-> es]]
Ok(w) == w.thrown.kind = "none"

\* the error a catch clause receives: the thrown error itself, or the thrown
\* array as one value
Caught(t) == IF t.kind = "error" THEN t.errs[1] ELSE Err("array", 0, "", Undef)

Event(ev, i, name, v) ==
  [ev |-> ev, inst |-> i, name |-> name, val |-> v, id |-> Undef, seen |-> Undef]
Emit(w, e) == [w EXCEPT !.log = Append(@, e)]

\* model._data[name], read through the prototype-less store
stored(w, i, name) ==
  IF name \in DOMAIN w.heap[i].data THEN w.heap[i].data[name] ELSE Undef

Accessors(w, i) == {w.heap[i].acc[j].name : j \in 1..Len(w.heap[i].acc)}
Accessor(w, i, name) ==
  w.heap[i].acc[CHOOSE j \in 1..Len(w.heap[i].acc) : w.heap[i].acc[j].name = name]
\* the declaration object an accessor closes over
AccDecl(w, a) == IF a.d # 0 THEN w.decls[a.d] ELSE a.lit

RECURSIVE get(_, _, _)

\* definition.get.call(this, value): the getters of the schema, with this = model
callGet(w, model, definition, value) ==
  CASE definition.get = "getTestGet" ->
         \* return this.anyTest + "@" + this.stringTest + ".com"
         Mail(get(w, model, "anyTest"), get(w, model, "stringTest"))
    [] OTHER -> value

\* a getter that hands out the stored value as it is
getStored(w, i, name) ==
  IF name \in Accessors(w, i) THEN stored(w, i, name) ELSE Undef

\* the getter installed by createProperty: definition.get.call(this, this._data[name])
get(w, i, name) ==
  IF name \in Accessors(w, i)
  THEN callGet(w, i, AccDecl(w, Accessor(w, i, name)), stored(w, i, name))
  ELSE Undef

\* is.typeOf(type, value)
typeOf(w, type, v) ==
  CASE type.t = "prim"       -> v.k = type.d
    [] type.t = "model"      -> v.k = "model" /\ type.d \in Chain(w.defs, w.heap[v.n].def)
    [] type.t = "collection" -> v.k = "collection"
    [] OTHER                 -> TRUE

\* is.enforce(type, value): throws unless the value is of the type
enforce(w, i, name, type, v) ==
  IF typeOf(w, type, v) THEN w ELSE Throw(w, Err("TypeViolation", i, name, v))

\* Object.defineProperty(model, '_data', Object.create(model._data)): the third
\* argument is read as a property descriptor, through its prototype chain, so its
\* fields are the stored properties that happen to be named like descriptor
\* fields.  _data is neither writable nor configurable: with no such field the call
\* changes nothing, with one that asks for a change it throws.
DescriptorAsksChange(w, i) ==
  \/ \E n \in {"value", "get", "set"} : n \in DOMAIN w.heap[i].data
  \/ \E n \in {"writable", "enumerable", "configurable"} :
       n \in DOMAIN w.heap[i].data /\ Truthy(w.heap[i].data[n])

\* Object.defineProperty(model, '_data', Object.create(model._data)): a
\* descriptor without fields leaves the property as it is, so _data keeps
\* holding the object it held (frame); one that asks for a change throws
defineData(w, model) ==
  IF DescriptorAsksChange(w, model)
  THEN Throw(w, Err("TypeError", model, "_data", Undef))
  ELSE w

RECURSIVE assign(_, _, _, _)
RECURSIVE runListeners(_, _, _, _)
RECURSIVE init(_, _, _, _)

\* var x = v; F(x): v is evaluated once, then F runs with the result
Bind(v, F(_)) == CHOOSE r \in {F(x) : x \in {v}} : TRUE

\* the guard of set(): is the value type-checked at all
enforced(definition, value) == definition.type # NoType

\* a set() that forgets the inbound flag
syncsDespiteDropsync(w, model, definition) == definition.sync

\* a set() that broadcasts only the writes of registered instances
syncsOnceRegistered(w, model, definition) ==
  definition.sync /\ ~w.heap[model].dropsync /\ model \in w.registry

\* the guard of set(): does the write go out on the process bus
syncs(w, model, definition) == definition.sync /\ ~w.heap[model].dropsync

\* the store update of set()
store(w, model, name, value) ==
  Emit([w EXCEPT !.heap[model].data = (name :> value) @@ @],
       Event("store", model, name, value))

\* an emit that calls no listener
emitLocalUnheard(w, model, name, value) ==
  Emit(w, [Event("local", model, name, value) EXCEPT !.seen = get(w, model, name)])

\* model.emit(name, {value, model}): the listeners run before emit returns
emitLocal(w, model, name, value) ==
  Bind(Emit(w, [Event("local", model, name, value) EXCEPT !.seen = get(w, model, name)]),
       LAMBDA w1 : runListeners(w1, model, name, 1))

\* process.emit('sync', {id, property, value})
emitSync(w, model, name, value) ==
  Emit(w, [Event("sync", model, name, value) EXCEPT !.id = get(w, model, "id")])

\* a set() that validates after it has written
setStoreBeforeEnforce(w, model, name, definition, value) ==
  Bind(store(w, model, name, value), LAMBDA w3 :
  Bind(emitLocal(w3, model, name, value), LAMBDA w4 :
    IF ~Ok(w4) THEN w4
    ELSE Bind(IF enforced(definition, value)
              THEN enforce(w4, model, name, definition.type, value) ELSE w4, LAMBDA w5 :
           IF ~Ok(w5) \/ ~syncs(w5, model, definition) THEN w5
           ELSE emitSync(w5, model, name, value))))

\* a set() that broadcasts before it notifies the local observers
setSyncBeforeLocal(w, model, name, definition, value) ==
  Bind(IF enforced(definition, value)
       THEN enforce(w, model, name, definition.type, value) ELSE w, LAMBDA w1 :
    IF ~Ok(w1) THEN w1
    ELSE Bind(store(w1, model, name, value), LAMBDA w3 :
         Bind(IF syncs(w3, model, definition)
              THEN emitSync(w3, model, name, value) ELSE w3, LAMBDA w4 :
           emitLocal(w4, model, name, value))))

\* set(model, name, definition, value)
set(w, model, name, definition, value) ==
  Bind(IF enforced(definition, value)
       THEN enforce(w, model, name, definition.type, value) ELSE w, LAMBDA w1 :
    IF ~Ok(w1) THEN w1
    ELSE Bind(defineData(w1, model), LAMBDA w2 :
      IF ~Ok(w2) THEN w2
      ELSE Bind(store(w2, model, name, value), LAMBDA w3 :
           Bind(emitLocal(w3, model, name, value), LAMBDA w4 :
             IF ~Ok(w4) \/ ~syncs(w4, model, definition) THEN w4
             ELSE emitSync(w4, model, name, value)))))

\* a listener that is never called
runObserverNever(w, model, obs) == w

\* the observers of the schema, called with this = model; the call is logged
runObserver(w, model, obs) ==
  Bind(Emit(w, Event("observer", model, obs, Undef)), LAMBDA w1 :
    CASE obs = "lockedOnEdit" ->
           \* this.locked = this.edit
           assign(w1, model, "locked", get(w1, model, "edit"))
      [] obs = "onTestOnAnyTest" ->
           \* this.onTest = (this.anyTest === 100) ? true : false
           assign(w1, model, "onTest",
                  IF get(w1, model, "anyTest") = Num(100) THEN Bool(1) ELSE Bool(0))
      [] OTHER -> w1)

\* EventEmitter.emit: the listeners of the event, in the order they were added;
\* a listener that throws ends the emit
runListeners(w, model, event, j) ==
  IF ~Ok(w) \/ j > Len(w.heap[model].listeners) THEN w
  ELSE LET l == w.heap[model].listeners[j]
       IN  Bind(IF l.event = event THEN runObserver(w, model, l.obs) ELSE w, LAMBDA w1 :
             runListeners(w1, model, event, j + 1))

\* a setter that hands its value on as it is
callSetIdentity(w, model, definition, value) == [w EXCEPT !.ret = value]

\* an edit setter that emits the edit event whatever the value is
callSetAlwaysEmits(w, model, definition, value) ==
  IF definition.set = "editSet"
  THEN [Emit(w, Event("edit", model,
                      IF model = 0 THEN "undefined"
                      ELSE w.defs[w.heap[model].def].EDIT_EVENT, Undef))
          EXCEPT !.ret = value]
  ELSE [w EXCEPT !.ret = value]

\* definition.set.call(this, value): the world after the call, the result in ret
callSet(w, model, definition, value) ==
  CASE definition.set = "editSet" ->
         \* if (value) process.emit(this.EDIT_EVENT, {model: this}); return value
         [(IF Truthy(value)
           THEN Emit(w, Event("edit", model,
                              IF model = 0 THEN "undefined"
                              ELSE w.defs[w.heap[model].def].EDIT_EVENT, Undef))
           ELSE w) EXCEPT !.ret = value]
    [] definition.set = "hasOneSet" ->
         \* return typeOf(relation, data) ? data : relation.init(data)
         IF typeOf(w, definition.type, value) THEN [w EXCEPT !.ret = value]
         ELSE init(w, definition.type.d, rawOf(value), 0)
    [] definition.set = "setTestSet" ->
         \* return value * 100
         [w EXCEPT !.ret = Times100(value)]
    [] OTHER -> [w EXCEPT !.ret = value]

\* a setter that checks the type of its input before the custom setter runs
assignEnforceFirst(w, model, name, value) ==
  IF name \notin Accessors(w, model) THEN w
  ELSE Bind(AccDecl(w, Accessor(w, model, name)), LAMBDA definition :
       Bind(IF enforced(definition, value)
            THEN enforce(w, model, name, definition.type, value) ELSE w, LAMBDA w0 :
         IF ~Ok(w0) THEN w0
         ELSE Bind(callSet(w0, model, definition, value), LAMBDA w1 :
                IF ~Ok(w1) THEN w1 ELSE set(w1, model, name, definition, w1.ret))))

\* model[name] = value: the setter installed by createProperty
assign(w, model, name, value) ==
  IF name \notin Accessors(w, model) THEN w
  ELSE Bind(AccDecl(w, Accessor(w, model, name)), LAMBDA definition :
       Bind(callSet(w, model, definition, value), LAMBDA w1 :
         IF ~Ok(w1) THEN w1 ELSE set(w1, model, name, definition, w1.ret)))

-----------------------------------------------------------------------------
(* Construction                                                            *)

\* definition.get = definition.get || identity; definition.set = definition.set || identity
withIdentity(definition) ==
  [definition EXCEPT !.get = IF @ = "absent" THEN "identity" ELSE @,
                     !.set = IF @ = "absent" THEN "identity" ELSE @]

\* a createProperty that subscribes every observer twice
subscribeTwice(listeners, on) ==
  listeners \o [j \in 1..(2 * Len(on)) |->
                  [event |-> on[(j + 1) \div 2].watch, obs |-> on[(j + 1) \div 2].obs]]

\* model.on(property, bind(model, observer)) for every entry of definition.on
subscribe(listeners, on) ==
  listeners \o [j \in 1..Len(on) |-> [event |-> on[j].watch, obs |-> on[j].obs]]

\* a createProperty that seeds every instance with the declaration's own array
defaultValueShared(w, definition) == [w EXCEPT !.ret = definition.defaultValue]

\* var value = definition.defaultValue; if (typeOf('array', ...)) value = []
defaultValue(w, definition) ==
  IF definition.defaultValue.k = "array"
  THEN [w EXCEPT !.arrays = @ + 1, !.ret = Arr(w.arrays + 1)]
  ELSE [w EXCEPT !.ret = definition.defaultValue]

\* a createProperty that seeds the default through the installed setter
createPropertyAssigning(w, model, name, d, lit, enumerable) ==
  Bind(withIdentity(IF d # 0 THEN w.decls[d] ELSE lit), LAMBDA definition :
  Bind([(IF d # 0 THEN [w EXCEPT !.decls[d] = definition] ELSE w)
          EXCEPT !.heap[model].acc =
            Append(@, [name |-> name, d |-> d,
                       lit |-> IF d # 0 THEN EmptyDecl ELSE definition,
                       enumerable |-> enumerable])], LAMBDA w2 :
  Bind(IF definition.defaultValue # Undef
       THEN Bind(defaultValue(w2, definition), LAMBDA v :
              assign(v, model, name, v.ret))
       ELSE w2, LAMBDA w3 :
    Emit([w3 EXCEPT !.heap[model].listeners = subscribe(@, definition.on)],
         Event("define", model, name, stored(w3, model, name))))))

\* createProperty(model, name, definition, enumerable); d is the number of the
\* declaration object, or 0 when the declaration is the literal lit; the log
\* records the accessor and the value it was seeded with
createProperty(w, model, name, d, lit, enumerable) ==
  Bind(withIdentity(IF d # 0 THEN w.decls[d] ELSE lit), LAMBDA definition :
  Bind([(IF d # 0 THEN [w EXCEPT !.decls[d] = definition] ELSE w)
          EXCEPT !.heap[model].acc =
            Append(@, [name |-> name, d |-> d,
                       lit |-> IF d # 0 THEN EmptyDecl ELSE definition,
                       enumerable |-> enumerable])], LAMBDA w2 :
  \* model._data[name] = definition.set(value): called without a receiver
  Bind(IF definition.defaultValue # Undef
       THEN Bind(defaultValue(w2, definition), LAMBDA v :
            Bind(callSet(v, 0, definition, v.ret), LAMBDA c :
              [c EXCEPT !.heap[model].data = (name :> c.ret) @@ @]))
       ELSE w2, LAMBDA w3 :
    Emit([w3 EXCEPT !.heap[model].listeners = subscribe(@, definition.on)],
         Event("define", model, name, stored(w3, model, name))))))

\* does the declaration say enumerable: false
hasKeyOfValueEnumerableFalse(definition) == definition.enumerable = "false"

\* initProperties(model): an accessor for every declared property
RECURSIVE initProperties(_, _, _)
initProperties(w, model, j) ==
  LET dict == w.defs[w.heap[model].def].properties
  IN  IF j > Len(dict) THEN w
      ELSE Bind(IF dict[j].name \in Accessors(w, model) THEN w
                ELSE createProperty(w, model, dict[j].name, dict[j].d, EmptyDecl,
                                    ~hasKeyOfValueEnumerableFalse(w.decls[dict[j].d])),
                LAMBDA w1 : initProperties(w1, model, j + 1))

\* Collection.init({type, id}): a new, empty collection
newCollection(w, type, owner, name) ==
  [w EXCEPT !.colls = Append(@, [type |-> type, owner |-> owner, name |-> name,
                                 items |-> <<>>])]

\* initHasMany(model): a non-enumerable accessor per has-many name, whose default
\* is a collection with id model.id + "-" + name
RECURSIVE initHasMany(_, _, _)
initHasMany(w, model, j) ==
  LET dict == w.defs[w.heap[model].def].hasMany
  IN  IF j > Len(dict) THEN w
      ELSE Bind(IF dict[j].name \in Accessors(w, model) THEN w
                ELSE Bind(newCollection(w, dict[j].rel, get(w, model, "id"), dict[j].name),
                          LAMBDA w1 :
                            createProperty(w1, model, dict[j].name, 0,
                              [EmptyDecl EXCEPT !.defaultValue = Coll(Len(w1.colls)),
                                                !.type = CollectionT],
                              FALSE)),
                LAMBDA w2 : initHasMany(w2, model, j + 1))

\* initHasOne(model): a non-enumerable accessor per has-one name, typed to the
\* relation, whose setter instantiates raw data
RECURSIVE initHasOne(_, _, _)
initHasOne(w, model, j) ==
  LET dict == w.defs[w.heap[model].def].hasOne
  IN  IF j > Len(dict) THEN w
      ELSE Bind(IF dict[j].name \in Accessors(w, model) THEN w
                ELSE createProperty(w, model, dict[j].name, 0,
                       [EmptyDecl EXCEPT !.type = ModelT(dict[j].rel), !.set = "hasOneSet"],
                       FALSE),
                LAMBDA w1 : initHasOne(w1, model, j + 1))

\* e.errors.push(err), and the exception is gone
catch(w, e) ==
  [w EXCEPT !.sinks[e] = Append(@, Caught(w.thrown)), !.thrown = None]

\* a loop that visits every accessor, enumerable or not
RECURSIVE updateEachAccessor(_, _, _, _, _)
updateEachAccessor(w, model, data, e, j) ==
  IF j > Len(w.heap[model].acc) THEN w
  ELSE LET a == w.heap[model].acc[j]
       IN  IF ~(a.name \in DOMAIN data.fields)
           THEN updateEachAccessor(w, model, data, e, j + 1)
           ELSE Bind(assign(w, model, a.name, field(data, a.name)), LAMBDA w1 :
                Bind(IF Ok(w1) THEN w1 ELSE catch(w1, e), LAMBDA w2 :
                  updateEachAccessor(w2, model, data, e, j + 1)))

\* the loop of updateProperties: forEach(model, ...) visits the own enumerable
\* properties; each assignment is tried and its error collected
RECURSIVE updateEach(_, _, _, _, _)
updateEach(w, model, data, e, j) ==
  IF j > Len(w.heap[model].acc) THEN w
  ELSE LET a == w.heap[model].acc[j]
       IN  IF ~(a.enumerable /\ hasOwnKey(a.name, data))
           THEN updateEach(w, model, data, e, j + 1)
           ELSE Bind(assign(w, model, a.name, field(data, a.name)), LAMBDA w1 :
                Bind(IF Ok(w1) THEN w1 ELSE catch(w1, e), LAMBDA w2 :
                  updateEach(w2, model, data, e, j + 1)))

\* updateProperties(model, data, e): the id is assigned outside the try
updateProperties(w, model, data, e) ==
  Bind(assign(w, model, "id", field(data, "id")), LAMBDA w1 :
    IF ~Ok(w1) THEN w1 ELSE updateEach(w1, model, data, e, 1))

\* a collection that puts a new item in front
addFirst(w, c, item) ==
  IF typeOf(w, ModelT(w.colls[c].type), item)
  THEN [w EXCEPT !.colls[c].items = <<item>> \o @]
  ELSE Throw(w, Err("TypeViolation", 0, w.colls[c].name, item))

\* Collection.add(item)
add(w, c, item) ==
  IF typeOf(w, ModelT(w.colls[c].type), item)
  THEN [w EXCEPT !.colls[c].items = Append(@, item)]
  ELSE Throw(w, Err("TypeViolation", 0, w.colls[c].name, item))

\* forEach(data[name], function(data) { model[name].add(relation.init(data, e)) })
RECURSIVE createChildren(_, _, _, _, _, _)
createChildren(w, model, name, relation, items, e) ==
  IF ~Ok(w) \/ items = <<>> THEN w
  ELSE Bind(init(w, relation, rawOf(items[1]), e), LAMBDA w1 :
       Bind(IF Ok(w1) THEN add(w1, get(w1, model, name).n, w1.ret) ELSE w1, LAMBDA w2 :
         createChildren(w2, model, name, relation, Tail(items), e)))

\* createHasMany(model, data, e)
RECURSIVE createHasMany(_, _, _, _, _)
createHasMany(w, model, data, e, j) ==
  LET dict == w.defs[w.heap[model].def].hasMany
  IN  IF ~Ok(w) \/ j > Len(dict) THEN w
      ELSE Bind(IF hasOwnKey(dict[j].name, data)
                THEN createChildren(w, model, dict[j].name, dict[j].rel,
                                    list(data, dict[j].name), e)
                ELSE w,
                LAMBDA w1 : createHasMany(w1, model, data, e, j + 1))

\* createHasOne(model, data, e): model[name] = relation.init(data[name], e)
RECURSIVE createHasOne(_, _, _, _, _)
createHasOne(w, model, data, e, j) ==
  LET dict == w.defs[w.heap[model].def].hasOne
  IN  IF ~Ok(w) \/ j > Len(dict) THEN w
      ELSE Bind(IF hasOwnKey(dict[j].name, data)
                THEN Bind(init(w, dict[j].rel, rawOf(field(data, dict[j].name)), e),
                          LAMBDA w1 :
                            IF Ok(w1) THEN assign(w1, model, dict[j].name, w1.ret) ELSE w1)
                ELSE w,
                LAMBDA w2 : createHasOne(w2, model, data, e, j + 1))

\* the end of __init__: throw the collected errors, or register
finish(w, model, throwErrors, e) ==
  IF throwErrors /\ w.sinks[e] # <<>> THEN ThrowArray(w, w.sinks[e])
  ELSE [Emit(w, Event("registry", model, "registry:add", Undef))
          EXCEPT !.registry = @ \cup {model}, !.ret = Ref(model)]

\* an __init__ that applies the raw values before it sets up the relations
populateBeforeRelations(w, model, data, e) ==
  Bind(initProperties(w, model, 1), LAMBDA w1 :
  Bind(updateProperties(w1, model, data, e), LAMBDA w2 :
  Bind(initHasMany(w2, model, 1), LAMBDA w3 :
  Bind(initHasOne(w3, model, 1), LAMBDA w4 :
  Bind(createHasMany(w4, model, data, e, 1), LAMBDA w5 :
    createHasOne(w5, model, data, e, 1))))))

\* the order in which __init__ materializes and populates
populate(w, model, data, e) ==
  Bind(initProperties(w, model, 1), LAMBDA w1 :
  Bind(initHasMany(w1, model, 1), LAMBDA w2 :
  Bind(initHasOne(w2, model, 1), LAMBDA w3 :
  Bind(updateProperties(w3, model, data, e), LAMBDA w4 :
  Bind(createHasMany(w4, model, data, e, 1), LAMBDA w5 :
    createHasOne(w5, model, data, e, 1))))))

\* definition.init(data, e): Object.create(definition), then __init__(data, e).
\* e = 0 is a call without an error sink.
init(w, definition, data0, e0) ==
  LET model == Len(w.heap) + 1
      throwErrors == e0 = 0
      \* if (typeof data.id === "undefined") data.id = uuid.v4()
      fresh == field(data0, "id") = Undef
  IN  \* e = {errors: []}
      Bind(IF throwErrors THEN [w EXCEPT !.sinks = Append(@, <<>>)] ELSE w, LAMBDA w0 :
      Bind(IF throwErrors THEN Len(w0.sinks) ELSE e0, LAMBDA e :
      Bind(IF fresh /\ ~data0.prim
           THEN [data0 EXCEPT !.fields = ("id" :> UuidStr(w0.uuid + 1)) @@ @]
           ELSE data0, LAMBDA data :
      Bind([(IF fresh
             THEN Emit([w0 EXCEPT !.uuid = @ + 1],
                       Event("uuid", model, "id", UuidStr(w0.uuid + 1)))
             ELSE w0)
              EXCEPT !.heap = Append(@,
                [def |-> definition, acc |-> <<>>, data |-> NoFields, frame |-> 0,
                 dropsync |-> FALSE, listeners |-> <<>>])], LAMBDA w2 :
      Bind(populate(w2, model, data, e), LAMBDA w3 :
        IF ~Ok(w3) THEN w3 ELSE finish(w3, model, throwErrors, e))))))

\* filter(model, partial(identity, true)): a plain record of the own
\* properties that forEach visits (the enumerable ones, and with hidden the
\* others too), each read through its getter
filter(w, model, hidden) ==
  [name \in {w.heap[model].acc[j].name :
               j \in {m \in 1..Len(w.heap[model].acc) :
                        hidden \/ w.heap[model].acc[m].enumerable}} |->
     get(w, model, name)]

\* a serialise that keeps the accessors that are not enumerable as well
serialiseEveryAccessor(w, model, recurse) ==
  [k |-> "serialised", n |-> model,
   fields |-> filter(w, model, TRUE),
   lists |-> NoLists]

\* serialise(model, recurse): the own enumerable properties, and with recurse
\* the serialised items of every has-many name; map calls serialise(item, index)
RECURSIVE serialise(_, _, _)
serialise(w, model, recurse) ==
  LET dict == w.defs[w.heap[model].def].hasMany
  IN  [k |-> "serialised", n |-> model,
       fields |-> filter(w, model, FALSE),
       lists |-> IF recurse = Undef THEN NoLists
                 ELSE [name \in Keys(dict) |->
                         LET items == w.colls[get(w, model, name).n].items
                         IN  [j \in 1..Len(items) |->
                                serialise(w, items[j].n, Num(j - 1))]]]

\* model[name], read from outside the model
read(w, model, name) == [w EXCEPT !.ret = get(w, model, name)]

\* a sync() for which no declared type is a model definition
typeOfBaseNever(w, type) == FALSE

\* does Base.isPrototypeOf(type) hold: the type is a definition derived from Base
typeOfBase(w, type) ==
  type.t = "model" /\ type.d \in DOMAIN w.defs /\ "Base" \in Chain(w.defs, w.defs[type.d].parent)

\* the last statement of sync(): this._dropsync = false
dropsyncOff(w, model) == [w EXCEPT !.heap[model].dropsync = FALSE]

\* a sync() that applies the payload without raising _dropsync
syncWithoutFlag(w, model, property, value) ==
  LET dict == w.defs[w.heap[model].def].properties
  IN  IF property \notin Keys(dict)
      THEN Throw(w, Err("TypeError", model, property, Undef))
      ELSE Bind(w.decls[Entry(dict, property).d].type, LAMBDA type :
           Bind(IF typeOfBase(w, type) THEN init(w, type.d, rawOf(value), 0)
                ELSE [w EXCEPT !.ret = value], LAMBDA w2 :
             IF ~Ok(w2) THEN w2 ELSE assign(w2, model, property, w2.ret)))

\* sync(data) on model, data = {property, value}
sync(w, model, property, value) ==
  LET dict == w.defs[w.heap[model].def].properties
  IN  Bind([w EXCEPT !.heap[model].dropsync = TRUE], LAMBDA w1 :
        IF property \notin Keys(dict)
        THEN Throw(w1, Err("TypeError", model, property, Undef))
        ELSE Bind(w1.decls[Entry(dict, property).d].type, LAMBDA type :
             Bind(IF typeOfBase(w1, type) THEN init(w1, type.d, rawOf(value), 0)
                  ELSE [w1 EXCEPT !.ret = value], LAMBDA w2 :
               IF ~Ok(w2) THEN w2
               ELSE Bind(assign(w2, model, property, w2.ret), LAMBDA w3 :
                      IF ~Ok(w3) THEN w3 ELSE dropsyncOff(w3, model)))))

-----------------------------------------------------------------------------
(* The state machine: one action per call a client makes                   *)

\* the world a call starts in
World ==
  [decls |-> decls, defs |-> defs, heap |-> heap, colls |-> colls,
   registry |-> registry, uuid |-> uuid, arrays |-> arrays,
   log |-> <<>>, thrown |-> None, sinks |-> <<>>, ret |-> Undef]

\* the module as require() leaves it: the definitions merged, nothing constructed
Loaded ==
  [decls |-> InitialDecls, defs |-> InitialDefs, heap |-> <<>>, colls |-> <<>>,
   registry |-> {}, uuid |-> 0, arrays |-> 0,
   log |-> <<>>, thrown |-> None, sinks |-> <<>>, ret |-> Undef]

Call(kind, i, name, v, data) ==
  [kind |-> kind, inst |-> i, name |-> name, val |-> v, data |-> data]

\* the state a call leaves behind
Becomes(w, o) ==
  /\ decls' = w.decls
  /\ defs' = w.defs
  /\ heap' = w.heap
  /\ colls' = w.colls
  /\ registry' = w.registry
  /\ uuid' = w.uuid
  /\ arrays' = w.arrays
  /\ log' = w.log
  /\ thrown' = w.thrown
  /\ op' = o
  /\ calls' = calls + 1

Is(w, o) ==
  /\ decls = w.decls
  /\ defs = w.defs
  /\ heap = w.heap
  /\ colls = w.colls
  /\ registry = w.registry
  /\ uuid = w.uuid
  /\ arrays = w.arrays
  /\ log = w.log
  /\ thrown = w.thrown
  /\ op = o

\* the raw data of the top-level constructions explored
Choices(name, vs) == {NoFields} \cup {name :> v : v \in vs}

TopFields ==
  {a @@ b @@ c @@ d @@ e @@ f :
     a \in Choices("id", {Str(3), Str(0), Num(5)}),
     b \in Choices("stringTest", {Str(1), Num(1), Undef}),
     c \in Choices("numberTest", {Num(1), Str(1)}),
     d \in Choices("syncTest", {Str(1)}),
     e \in Choices("edit", {Bool(1)}),
     f \in Choices("onInit", {Obj(1), Obj(2)})}

ChildLists ==
  UNION {[1..n -> {Obj(1), Obj(2), Obj(3), Obj(4)}] : n \in 0..MaxChildren}

TopRaws ==
  {[fields |-> f, lists |-> l, prim |-> FALSE] :
     f \in TopFields,
     l \in {NoLists} \cup {"children" :> cs : cs \in ChildLists}}

\* the raw data the explored model is constructed from (the test suite's beforeEach)
StartRaws ==
  {[fields |-> f @@ ("stringTest" :> Str(1)) @@ ("numberTest" :> Num(1)),
    lists |-> "children" :> <<Obj(1)>>, prim |-> FALSE] :
     f \in Choices("id", {Str(3)})}

\* the values a client assigns to, or syncs into, a property
Candidates(name) ==
  CASE name = "id"         -> {Str(4), Num(5)}
    [] name = "edit"       -> {Bool(1), Bool(0), Num(1), Undef}
    [] name = "locked"     -> {Bool(1), Str(1)}
    [] name = "name"       -> {Str(2), Num(10)}
    [] name = "anyTest"    -> {Num(100), Str(1)}
    [] name = "stringTest" -> {Str(2), Num(1), Undef}
    [] name = "numberTest" -> {Num(2), Str(1)}
    [] name = "syncTest"   -> {Str(1), Undef}
    [] name = "onTest"     -> {Bool(1)}
    [] name = "modelTest"  -> {Ref(2), Obj(1), Undef}
    [] name = "children"   -> {Num(1)}
    [] name = "onInit"     -> {Obj(1), Obj(2), Ref(2)}
    [] name = "getTest"    -> {Str(1)}
    [] name = "setTest"    -> {Num(1), Num(2), Undef}
    [] OTHER               -> {Undef}

\* Model.init(data)
Construct(data) ==
  /\ heap = <<>>
  /\ \E w \in {init(World, "Model", data, 0)} :
       Becomes(w, Call("init", 1, "", Undef, data))

\* model[name] = value, from outside the model
Assign(i, name, v) ==
  /\ calls < MaxOps
  /\ \E w \in {assign(World, i, name, v)} :
       Becomes(w, Call("assign", i, name, v, EmptyRaw))

\* model.sync({property, value})
Sync(i, property, v) ==
  /\ calls < MaxOps
  /\ \E w \in {sync(World, i, property, v)} :
       Becomes(w, Call("sync", i, property, v, EmptyRaw))

\* var value = model[name]
Read(i, name) ==
  /\ calls < MaxOps
  /\ \E w \in {read(World, i, name)} :
       Becomes(w, [kind |-> "read", inst |-> i, name |-> name, val |-> Undef,
                   data |-> EmptyRaw, ret |-> w.ret])

\* model.serialise(recurse)
Serialise(i, recurse) ==
  /\ calls < MaxOps
  /\ Becomes(World, [kind |-> "serialise", inst |-> i, name |-> "", val |-> recurse,
                      data |-> EmptyRaw, ret |-> serialise(World, i, recurse)])

\* the number of definitions derived since the module was loaded
Derived == Cardinality(DOMAIN defs \ DOMAIN InitialDefs)

\* the raw data the instances of the derived definitions are constructed from
DerivedRaws == {EmptyRaw, Fields("id" :> Str(3))}

\* parent.extend(source), before any instance exists
Extend(parent, source) ==
  /\ heap = <<>>
  /\ Derived < MaxDerived
  /\ \E w \in {extend(World, DerivedName(Derived + 1), parent, source)} :
       Becomes(w, [kind |-> "extend", inst |-> 0, name |-> DerivedName(Derived + 1),
                   val |-> Undef, data |-> EmptyRaw, parent |-> parent, src |-> source])

\* definition.init(data) for the definition derived last
ConstructDerived(data) ==
  /\ Derived >= 1
  /\ Len(heap) < MaxOps
  /\ \E w \in {init(World, DerivedName(Derived), data, 0)} :
       Becomes(w, Call("init", Len(heap) + 1, DerivedName(Derived), Undef, data))

\* definition.init(data) for a definition that exists
ConstructOf(definition, data) ==
  /\ calls < MaxOps
  /\ \E w \in {init(World, definition, data, 0)} :
       Becomes(w, Call("init", Len(heap) + 1, definition, Undef, data))

\* a program that loads the module and constructs one model from raw data
InitLoaded ==
  /\ Is(Loaded, Call("load", 0, "", Undef, EmptyRaw))
  /\ calls = 0

NextInit == heap = <<>> /\ \E data \in TopRaws : Construct(data)

SpecInit == InitLoaded /\ [][NextInit]_vars

\* a program that derives definitions from the loaded ones and then constructs
\* instances of the one derived last
NextExtend ==
  \/ \E parent \in DOMAIN defs : \E source \in ExtendSources : Extend(parent, source)
  \/ \E data \in DerivedRaws : ConstructDerived(data)

SpecExtend == InitLoaded /\ [][NextExtend]_vars

\* a program that has constructed a model and then writes to it and to its
\* children, locally and through inbound sync
Init ==
  /\ \E data \in StartRaws :
       \E w \in {init(Loaded, "Model", data, 0)} :
         Is(w, Call("init", 1, "", Undef, data))
  /\ calls = 0

Next ==
  \E i \in 1..Len(heap) :
    \E name \in Accessors(World, i) :
      \E v \in Candidates(name) :
        \/ Assign(i, name, v)
        \/ Sync(i, name, v)

Spec == Init /\ [][Next]_vars

\* raw data of a model with up to MaxChildren valid children and a has-one child
EditRaws ==
  {[fields |-> f @@ g, lists |-> "children" :> [k \in 1..n |-> Obj(1)], prim |-> FALSE] :
     f \in Choices("id", {Str(3)}), g \in Choices("onInit", {Obj(1)}), n \in 0..MaxChildren}

\* a program that has constructed a model and then only switches edit mode, on
\* the model and on its children
InitEdit ==
  /\ \E data \in EditRaws :
       \E w \in {init(Loaded, "Model", data, 0)} :
         Is(w, Call("init", 1, "", Undef, data))
  /\ calls = 0

NextEdit ==
  \E i \in 1..Len(heap) : \E v \in Candidates("edit") : Assign(i, "edit", v)

SpecEdit == InitEdit /\ [][NextEdit]_vars

\* the values a client assigns to a has-one accessor: raw data, or an instance
\* of the child definition that exists
HasOneValues(rel) ==
  {Obj(1), Obj(2)} \cup {Ref(m) : m \in {k \in 1..Len(heap) : heap[k].def = rel}}

\* a program that has constructed a model and then assigns to its has-one
\* accessors
NextHasOne ==
  \E i \in 1..Len(heap) :
    \E j \in 1..Len(defs[heap[i].def].hasOne) :
      \E v \in HasOneValues(defs[heap[i].def].hasOne[j].rel) :
        Assign(i, defs[heap[i].def].hasOne[j].name, v)

SpecHasOne == InitEdit /\ [][NextHasOne]_vars

\* raw data of a model with custom transforms and one to MaxChildren children
ReadRaws ==
  {[fields |-> f @@ g @@ ("id" :> Str(3)),
    lists |-> "children" :> [k \in 1..n |-> IF k % 2 = 1 THEN Obj(1) ELSE Obj(4)],
    prim |-> FALSE] :
     f \in Choices("anyTest", {Str(1)}), g \in Choices("setTest", {Num(1)}),
     n \in 1..MaxChildren}

\* the arguments serialise() is called with: none, true, false
Recurse == {Undef, Bool(1), Bool(0)}

\* a program that has derived a model with custom transforms, constructed an
\* instance, and then writes, reads and serialises
InitRead ==
  /\ \E data \in ReadRaws :
       \E w0 \in {extend(Loaded, DerivedName(1), "Model", TransformSource)} :
         \E w \in {init(w0, DerivedName(1), data, 0)} :
           Is(w, Call("init", 1, DerivedName(1), Undef, data))
  /\ calls = 0

\* the properties the program writes: the transformed ones, the ones the
\* getter reads, and the children's name
Written == {"getTest", "setTest", "anyTest", "stringTest", "edit", "name"}

NextRead ==
  \E i \in 1..Len(heap) :
    \/ \E name \in Accessors(World, i) :
         \/ name \in Written /\ \E v \in Candidates(name) : Assign(i, name, v)
         \/ Read(i, name)
    \/ \E recurse \in Recurse : Serialise(i, recurse)

SpecRead == InitRead /\ [][NextRead]_vars

\* raw data with a value for a watched property, for the observing one, and
\* children
WatchRaws ==
  {[fields |-> a @@ b, lists |-> l, prim |-> FALSE] :
     a \in Choices("anyTest", {Num(100), Str(1)}),
     b \in Choices("onTest", {Str(1)}),
     l \in {NoLists, "children" :> [k \in 1..MaxChildren |-> Obj(1)]}}

\* a program that has derived a model declaring the observer first, and then
\* constructs instances of it and of Model
InitWatch ==
  /\ \E w \in {extend(Loaded, DerivedName(1), "Base", WatcherSource)} :
       Is(w, [kind |-> "extend", inst |-> 0, name |-> DerivedName(1), val |-> Undef,
              data |-> EmptyRaw, parent |-> "Base", src |-> WatcherSource])
  /\ calls = 0

NextWatch ==
  \E definition \in {"Model", DerivedName(1)} :
    \E data \in WatchRaws : ConstructOf(definition, data)

SpecWatch == InitWatch /\ [][NextWatch]_vars

\* a program that has derived a model whose edit is sync-enabled, constructed
\* an instance, and then switches edit mode on it and on its children
InitSyncEdit ==
  /\ \E data \in EditRaws :
       \E w0 \in {extend(Loaded, DerivedName(1), "Model", SyncEditSource)} :
         \E w \in {init(w0, DerivedName(1), data, 0)} :
           Is(w, Call("init", 1, DerivedName(1), Undef, data))
  /\ calls = 0

SpecSyncEdit == InitSyncEdit /\ [][NextEdit]_vars

\* raw data for a model with defaults: each default kept or replaced
DefaultRaws ==
  {Fields(a @@ b @@ c @@ d) :
     a \in Choices("anyTest", {Num(100), Str(1)}),
     b \in Choices("stringTest", {Str(1)}),
     c \in Choices("syncTest", {Str(2)}),
     d \in Choices("setTest", {Num(2)})}

\* a program that has derived a model with defaults and then constructs
\* instances of it
InitDefaults ==
  /\ \E w \in {extend(Loaded, DerivedName(1), "Base", DefaultsSource)} :
       Is(w, [kind |-> "extend", inst |-> 0, name |-> DerivedName(1), val |-> Undef,
              data |-> EmptyRaw, parent |-> "Base", src |-> DefaultsSource])
  /\ calls = 0

NextDefaults == \E data \in DefaultRaws : ConstructOf(DerivedName(1), data)

SpecDefaults == InitDefaults /\ [][NextDefaults]_vars

-----------------------------------------------------------------------------
(* Vocabulary of the properties                                            *)

\* is name a declared property of instance i, and its declaration
IsProperty(i, name) == name \in Keys(defs[heap[i].def].properties)
Declaration(i, name) == decls[Entry(defs[heap[i].def].properties, name).d]

\* the positions of the log where instance i emitted ev for name
At(l, ev, i, name) ==
  {j \in 1..Len(l) : l[j].ev = ev /\ l[j].inst = i /\ l[j].name = name}

\* the property an observer of the schema writes
ObserverTarget(obs) ==
  CASE obs = "lockedOnEdit" -> "locked"
    [] obs = "onTestOnAnyTest" -> "onTest"
    [] OTHER -> ""

\* the value currently stored for a property of an instance
Stored(i, name) == IF name \in DOMAIN heap[i].data THEN heap[i].data[name] ELSE Undef

\* does a value satisfy a declared type, in the current state
Satisfies(type, v) == typeOf(World, type, v)

\* the declared typed properties of a definition for which a raw record holds a
\* non-absent value that is not of the type, in the order of the dictionary
RECURSIVE ViolatingFrom(_, _, _, _)
ViolatingFrom(dict, raw, enumerableOnly, j) ==
  IF j > Len(dict) THEN <<>>
  ELSE LET definition == decls[dict[j].d]
           bad == /\ hasOwnKey(dict[j].name, raw)
                  /\ definition.type # NoType
                  /\ field(raw, dict[j].name) # Undef
                  /\ ~Satisfies(definition.type, field(raw, dict[j].name))
                  /\ (enumerableOnly => definition.enumerable # "false")
       IN  (IF bad THEN <<dict[j].name>> ELSE <<>>)
             \o ViolatingFrom(dict, raw, enumerableOnly, j + 1)

\* the enumerable typed properties of Model that the raw data violates
InvalidFields(raw) == ViolatingFrom(defs["Model"].properties, raw, TRUE, 1)

\* a raw child record with no value that violates a declared type of ChildModel
ValidChild(v) == ViolatingFrom(defs["ChildModel"].properties, rawOf(v), FALSE, 1) = <<>>
\* the raw data has a valid id or none
ValidId(raw) == field(raw, "id").k \in {"undefined", "string"}
NoInvalidChildren(raw) ==
  /\ \A k \in 1..Len(list(raw, "children")) : ValidChild(list(raw, "children")[k])
  /\ hasOwnKey("onInit", raw) => ValidChild(field(raw, "onInit"))

Names(errs) == [j \in 1..Len(errs) |-> errs[j].name]

-----------------------------------------------------------------------------
(* Properties                                                              *)

\* the step of C1: what a client's assignment of a wrong-typed value does
C1_Step ==
  LET i == op'.inst
      name == op'.name
  IN  (/\ op'.kind = "assign"
       /\ IsProperty(i, name)
       /\ Declaration(i, name).type # NoType
       /\ op'.val # Undef
       /\ ~Satisfies(Declaration(i, name).type, op'.val))
      => /\ thrown'.kind = "error"
         /\ thrown'.errs[1].what = "TypeViolation"
         /\ \A m \in 1..Len(heap) : heap'[m].data = heap[m].data
         /\ At(log', "local", i, name) = {}
         /\ At(log', "sync", i, name) = {}

\* C1: an assignment of a non-absent value that is not of the declared type to a
\* declared typed property throws a type violation, leaves the store of every
\* instance as it was, and emits neither the local event nor the sync event of
\* the property.
C1_TypeViolationIsAtomic == [][C1_Step]_vars

C1_Witness ==
  /\ op.kind = "assign"
  /\ op.name = "locked"
  /\ op.val = Str(1)
  /\ thrown.kind = "error"
  /\ Stored(op.inst, "locked") = Bool(0)

\* C2: a sync() call that returns has assigned its value through the setter: the
\* value is stored, the local event of the property was emitted and every
\* observer of the property has written its target; and it has emitted no sync
\* event for the property, whether or not the property is sync-enabled.
C2_InboundSyncIsNotReemitted ==
  (op.kind = "sync" /\ thrown.kind = "none")
  => /\ At(log, "local", op.inst, op.name) # {}
     /\ At(log, "sync", op.inst, op.name) = {}
     /\ \A j \in 1..Len(heap[op.inst].listeners) :
          heap[op.inst].listeners[j].event = op.name
          => At(log, "store", op.inst, ObserverTarget(heap[op.inst].listeners[j].obs)) # {}
     /\ Declaration(op.inst, op.name).type.t # "model" => Stored(op.inst, op.name) = op.val

C2_Witness ==
  /\ op.kind = "sync"
  /\ op.name = "syncTest"
  /\ thrown.kind = "none"
  /\ Declaration(op.inst, op.name).sync
  /\ Stored(op.inst, "syncTest") = Str(1)

\* C3: between calls no instance has _dropsync set, also after a sync() call
\* that threw.
C3_DropsyncOnlyDuringSync == \A i \in 1..Len(heap) : ~heap[i].dropsync

\* C4: outside an inbound sync, a successful assignment to a sync-enabled
\* property emits exactly one sync event for it, carrying the instance's id, the
\* property's name and the assigned value; a successful assignment to a
\* property that is not sync-enabled emits none.
C4_SyncEmittedExactlyOnce ==
  (op.kind = "assign" /\ thrown.kind = "none" /\ IsProperty(op.inst, op.name))
  => LET at == At(log, "sync", op.inst, op.name)
     IN  IF Declaration(op.inst, op.name).sync
         THEN /\ Cardinality(at) = 1
              /\ \A j \in at : log[j].id = Stored(op.inst, "id") /\ log[j].val = op.val
         ELSE at = {}

\* C5: within a call every local event directly follows the store of the same
\* value to the same property, the value read at that moment is the new one, and
\* every sync event comes after the local event of its write.
C5_StoreThenLocalThenSync ==
  \A j \in 1..Len(log) :
    /\ log[j].ev = "local"
       => /\ j > 1
          /\ log[j - 1] = Event("store", log[j].inst, log[j].name, log[j].val)
          /\ log[j].seen = log[j].val
    /\ log[j].ev = "sync"
       => \E k \in 1..(j - 1) :
            /\ log[k].ev = "local"
            /\ log[k].inst = log[j].inst
            /\ log[k].name = log[j].name
            /\ log[k].val = log[j].val
            /\ \A m \in (k + 1)..(j - 1) :
                 ~(log[m].ev = "store" /\ log[m].inst = log[j].inst
                   /\ log[m].name = log[j].name)

C5_Witness ==
  /\ op.kind = "assign"
  /\ op.name = "edit"
  /\ thrown.kind = "none"
  /\ At(log, "sync", op.inst, "locked") # {}

\* C6: assigning undefined to a declared typed property succeeds: nothing is
\* thrown, undefined is stored and the local event is emitted.
C6_UndefinedIsNotEnforced ==
  (/\ op.kind = "assign"
   /\ IsProperty(op.inst, op.name)
   /\ Declaration(op.inst, op.name).type # NoType
   /\ op.val = Undef)
  => /\ thrown.kind = "none"
     /\ Stored(op.inst, op.name) = Undef
     /\ At(log, "local", op.inst, op.name) # {}

\* C7: a top-level construction from raw data whose only invalid values are
\* k >= 1 non-absent values of enumerable typed properties throws once, the
\* array of exactly those k violations in the order of the properties, and has
\* still assigned every valid enumerable field of the raw data.
C7_AllInvalidFieldsAggregated ==
  (/\ op.kind = "init"
   /\ ValidId(op.data)
   /\ NoInvalidChildren(op.data)
   /\ InvalidFields(op.data) # <<>>)
  => /\ thrown.kind = "array"
     /\ Names(thrown.errs) = InvalidFields(op.data)
     /\ \A j \in 1..Len(thrown.errs) :
          thrown.errs[j].what = "TypeViolation" /\ thrown.errs[j].inst = 1
     /\ \A j \in 1..Len(heap[1].acc) :
          LET a == heap[1].acc[j]
          IN  (/\ a.enumerable
               /\ hasOwnKey(a.name, op.data)
               /\ a.name \notin {InvalidFields(op.data)[k] : k \in 1..Len(InvalidFields(op.data))})
              => Stored(1, a.name) = field(op.data, a.name)

\* C8: a top-level construction ends by returning or by throwing the array of
\* the collected violations, never by throwing one bare violation.
C8_ConstructionThrowsOnlyAggregates ==
  op.kind = "init" => thrown.kind \in {"none", "array"}

\* C9: a top-level construction registers its instance exactly when it collected
\* no errors: a construction that returns has emitted the registry add of its
\* instance once, as the last thing it did; a construction that fails has
\* thrown the array of the collected violations, has not emitted the registry
\* add and its instance is not in the registry.
C9_RegisteredIffConstructed ==
  op.kind = "init"
  => IF thrown.kind = "none"
     THEN /\ 1 \in registry
          /\ At(log, "registry", 1, "registry:add") = {Len(log)}
     ELSE /\ thrown.kind = "array"
          /\ 1 \notin registry
          /\ At(log, "registry", 1, "registry:add") = {}

\* C10: when the raw list under a has-many name holds invalid records, every
\* record of the list is processed: the construction throws the array, which
\* holds the violations of each invalid child, and every valid record has
\* become a child in the parent's collection.
C10_InvalidChildrenDoNotStopSiblings ==
  LET cs == list(op.data, "children")
  IN  (/\ op.kind = "init"
       /\ ValidId(op.data)
       /\ \E k \in 1..Len(cs) : ~ValidChild(cs[k]))
      => /\ thrown.kind = "array"
         /\ Len(heap) >= 1 + Len(cs)
         /\ \A k \in 1..Len(cs) :
              IF ValidChild(cs[k])
              THEN \E m \in 1..Len(colls[1].items) : colls[1].items[m] = Ref(1 + k)
              ELSE \E m \in 1..Len(thrown.errs) : thrown.errs[m].inst = 1 + k

\* the merged dictionary holds each name once: the own entry for an own name,
\* the base's entry for another name of the base
MergedFrom(merged, own, base) ==
  /\ Keys(merged) = Keys(own) \cup Keys(base)
  /\ Len(merged) = Cardinality(Keys(merged))
  /\ \A name \in Keys(own) : Entry(merged, name) = Entry(own, name)
  /\ \A name \in Keys(base) \ Keys(own) : Entry(merged, name) = Entry(base, name)

\* C11: a derived definition's properties, hasMany and hasOne hold exactly its
\* own entries and the base's entries under other names, the own declaration
\* being the one used for a name declared in both, along chains of any length;
\* every instance has accessors id, edit and locked, each closing over the
\* declaration its definition's merged dictionary holds.
C11_MergeShadowsBase ==
  /\ op.kind = "extend"
     => LET d == defs[op.name]
            b == defs[op.parent]
            own == [j \in 1..Len(op.src.properties) |->
                      Entry(d.properties, op.src.properties[j].name)]
        IN  /\ \A j \in 1..Len(op.src.properties) :
                 /\ op.src.properties[j].name \in Keys(d.properties)
                 /\ decls[own[j].d] = op.src.properties[j].decl
                 /\ \A k \in 1..Len(b.properties) : b.properties[k].d # own[j].d
            /\ MergedFrom(d.properties, own, b.properties)
            /\ MergedFrom(d.hasMany, op.src.hasMany, b.hasMany)
            /\ MergedFrom(d.hasOne, op.src.hasOne, b.hasOne)
  /\ \A i \in 1..Len(heap) :
       /\ {"id", "edit", "locked"} \subseteq Accessors(World, i)
       /\ \A name \in Keys(defs[heap[i].def].properties) :
            /\ name \in Accessors(World, i)
            /\ Accessor(World, i, name).d = Entry(defs[heap[i].def].properties, name).d

C11_Witness ==
  /\ op.kind = "init"
  /\ thrown.kind = "none"
  /\ defs[op.name].parent = "D1"
  /\ defs["D1"].parent = "Model"
  /\ Accessor(World, op.inst, "id").enumerable
  /\ "tags" \in Accessors(World, op.inst)
  /\ "anyTest" \in Accessors(World, op.inst)

\* C12: a merged definition and its declarations never change: the loaded
\* definitions keep their dictionaries, the loaded declarations keep every
\* field, and a declaration of a derived definition stays the literal it was
\* written as, whatever is derived, constructed or assigned later.
C12_DefinitionsAreImmutable ==
  /\ \A d \in DOMAIN InitialDefs : defs[d] = InitialDefs[d]
  /\ \A j \in 1..Len(decls) :
       IF j <= Len(InitialDecls) THEN decls[j] = InitialDecls[j]
       ELSE decls[j] \in {TagsDecl, OwnIdDecl}

\* C13: after a successful construction, the collection behind every has-many
\* accessor of every instance was created with the id made of the instance's
\* final id and the name.
C13_CollectionIdIsInstanceIdAndName ==
  (op.kind = "init" /\ thrown.kind = "none")
  => \A i \in 1..Len(heap) :
       \A name \in Keys(defs[heap[i].def].hasMany) :
         Stored(i, name).k = "collection"
         => /\ colls[Stored(i, name).n].owner = Stored(i, "id")
            /\ colls[Stored(i, name).n].name = name

\* the accessors of an instance that hold an array or a collection
Containers(i) ==
  {name \in Accessors(World, i) : Stored(i, name).k \in {"array", "collection"}}

\* C14: no two accessors of any instances hold the same array or the same
\* collection, and none holds the array written in the declaration.
C14_DefaultsArePerInstance ==
  \A i \in 1..Len(heap) : \A n \in Containers(i) :
    /\ Stored(i, n) # Arr(0)
    /\ \A j \in 1..Len(heap) : \A m \in Containers(j) :
         (i # j \/ n # m) => Stored(i, n) # Stored(j, m)

C14_Witness ==
  /\ Len(heap) = MaxOps
  /\ heap[1].def = heap[Len(heap)].def
  /\ thrown.kind = "none"
  /\ {"tags", "items"} \subseteq Containers(1)
  /\ {"tags", "items"} \subseteq Containers(Len(heap))

C16_ObserversRunOncePerAssignment ==
  op.kind = "assign"
  => LET i == op.inst
         ran == {j \in 1..Len(log) : log[j].ev = "observer"}
         watching == {k \in 1..Len(heap[i].listeners) :
                        heap[i].listeners[k].event = op.name}
     IN  /\ \A j \in ran : log[j].inst = i
         /\ IF thrown.kind = "none"
            THEN /\ \A k \in watching :
                      Cardinality({j \in ran : log[j].name = heap[i].listeners[k].obs}) = 1
                 /\ \A j \in ran :
                      /\ \E k \in watching : heap[i].listeners[k].obs = log[j].name
                      /\ \E m \in At(log, "local", i, op.name) : m < j
            ELSE ran = {}

C16_Witness ==
  /\ op.kind = "assign"
  /\ op.name = "anyTest"
  /\ op.val = Num(100)
  /\ thrown.kind = "none"
  /\ Stored(op.inst, "onTest") = Bool(1)
  /\ \E j \in 1..Len(log) : log[j].ev = "observer" /\ log[j].name = "onTestOnAnyTest"

\* the has-one accessor holds a child of the declared definition that this call
\* constructed from the raw data: it went through the constructor and carries
\* the values of the raw record
ChildBuiltFrom(i, name, v) ==
  LET c == Stored(i, name)
  IN  /\ c.k = "model"
      /\ heap[c.n].def = Entry(defs[heap[i].def].hasOne, name).rel
      /\ At(log, "registry", c.n, "registry:add") # {}
      /\ \A f \in DOMAIN rawOf(v).fields : Stored(c.n, f) = rawOf(v).fields[f]

\* C17: assigning an instance of the child definition to a has-one accessor
\* stores that instance and constructs nothing; assigning raw data that the
\* child definition accepts stores a new child constructed from it; a has-one
\* name in the raw data of a successful construction is populated in the same
\* way.
C17_HasOneAcceptsInstanceOrRaw ==
  /\ (op.kind = "init" /\ thrown.kind = "none" /\ hasOwnKey("onInit", op.data))
     => ChildBuiltFrom(1, "onInit", field(op.data, "onInit"))
  /\ (op.kind = "assign" /\ op.name \in Keys(defs[heap[op.inst].def].hasOne))
     => /\ op.val.k = "model"
           => /\ thrown.kind = "none"
              /\ Stored(op.inst, op.name) = op.val
              /\ \A j \in 1..Len(log) : log[j].ev # "registry"
        /\ (op.val.k = "object" /\ ValidChild(op.val))
           => /\ thrown.kind = "none"
              /\ ChildBuiltFrom(op.inst, op.name, op.val)
              /\ Stored(op.inst, op.name).n = Len(heap)

C17_Witness ==
  /\ op.kind = "assign"
  /\ op.name = "onInit"
  /\ op.val = Obj(1)
  /\ calls = MaxOps
  /\ thrown.kind = "none"
  /\ Stored(op.inst, "onInit") = Ref(Len(heap))
  /\ Stored(Len(heap), "name") = Str(1)

\* C18: after a successful construction the collection of a has-many name of
\* the raw data holds one child of the declared definition per raw record, in
\* the order of the records, each constructed by this call and carrying the
\* values of its record; for a has-many name that the raw data does not have
\* the collection is empty and no error names it.
C18_HasManyHoldsOneChildPerRecord ==
  op.kind = "init"
  => LET cs == list(op.data, "children")
         c == Stored(1, "children")
     IN  /\ thrown.kind = "none"
            => /\ c.k = "collection"
               /\ Len(colls[c.n].items) = Len(cs)
               /\ \A k \in 1..Len(cs) :
                    LET item == colls[c.n].items[k]
                    IN  /\ item.k = "model"
                        /\ heap[item.n].def = "ChildModel"
                        /\ At(log, "registry", item.n, "registry:add") # {}
                        /\ \A f \in DOMAIN rawOf(cs[k]).fields :
                             Stored(item.n, f) = rawOf(cs[k]).fields[f]
                        /\ \A f \in {"name"} \ DOMAIN rawOf(cs[k]).fields :
                             Stored(item.n, f) = Undef
                        /\ \A m \in 1..(k - 1) : colls[c.n].items[m] # item
         /\ ~hasOwnKey("children", op.data)
            => /\ c.k = "collection"
               /\ colls[c.n].items = <<>>
               /\ \A j \in 1..Len(thrown.errs) : thrown.errs[j].name # "children"

C18_Witness ==
  /\ op.kind = "init"
  /\ thrown.kind = "none"
  /\ list(op.data, "children") = <<Obj(1), Obj(4)>>
  /\ Len(colls[Stored(1, "children").n].items) = 2

\* C19: after a successful construction the id of the instance is a non-empty
\* string: the string id of the raw data when it has one, and then no id was
\* generated; the one id generated for the instance when the raw data has no
\* id; and the sync events of the instance carry it.
C19_IdIsSuppliedOrGenerated ==
  (op.kind = "init" /\ thrown.kind = "none")
  => LET id == Stored(1, "id")
         generated == {j \in 1..Len(log) : log[j].ev = "uuid" /\ log[j].inst = 1}
     IN  /\ id.k = "string"
         /\ id # Str(0)
         /\ field(op.data, "id").k = "string"
            => id = field(op.data, "id") /\ generated = {}
         /\ ~hasOwnKey("id", op.data)
            => Cardinality(generated) = 1 /\ \A j \in generated : log[j].val = id
         /\ \A j \in 1..Len(log) :
              (log[j].ev = "sync" /\ log[j].inst = 1) => log[j].id = id

\* C20: the sync event of a successful assignment carries the serialised
\* record of the assigned value when that value is a model instance, and the
\* assigned value itself otherwise.
C20_SyncCarriesSerialisedModel ==
  (op.kind = "assign" /\ thrown.kind = "none" /\ IsProperty(op.inst, op.name))
  => \A j \in At(log, "sync", op.inst, op.name) :
       IF op.val.k = "model"
       THEN log[j].val.k # "model" /\ log[j].val = serialise(World, op.val.n, Undef)
       ELSE log[j].val = op.val

\* the value a read of a declared property gives in the current state: what the
\* declared getter makes of the stored value
Reads(i, name) ==
  IF Declaration(i, name).get = "getTestGet"
  THEN Mail(Stored(i, "anyTest"), Stored(i, "stringTest"))
  ELSE Stored(i, name)

\* the declared properties of an instance that are not declared enumerable: false
Enumerable(i) ==
  {name \in Keys(defs[heap[i].def].properties) : Declaration(i, name).enumerable # "false"}

\* a serialised record holds exactly the enumerable declared properties of the
\* instance, with the values read now
FlatRecordOf(r, i) ==
  /\ r.n = i
  /\ DOMAIN r.fields = Enumerable(i)
  /\ DOMAIN r.fields \cap ({"id", "edit", "locked"}
                              \cup Keys(defs[heap[i].def].hasMany)
                              \cup Keys(defs[heap[i].def].hasOne)) = {}
  /\ \A name \in DOMAIN r.fields : r.fields[name] = Reads(i, name)

\* C21: serialise(recurse) returns a record whose keys are exactly the
\* enumerable declared properties of the instance (not id, edit, locked, nor a
\* relationship accessor), each with the value read through its getter; with
\* recurse given it also holds, for every has-many name, one serialised record
\* per child in the order of the collection, and without recurse it holds none.
C21_SerialiseHoldsEnumerableProperties ==
  op.kind = "serialise"
  => LET i == op.inst
         r == op.ret
     IN  /\ FlatRecordOf(r, i)
         /\ thrown.kind = "none"
         /\ IF op.val = Undef THEN DOMAIN r.lists = {}
            ELSE /\ DOMAIN r.lists = Keys(defs[heap[i].def].hasMany)
                 /\ \A name \in DOMAIN r.lists :
                      LET items == colls[Stored(i, name).n].items
                      IN  /\ Len(r.lists[name]) = Len(items)
                          /\ \A k \in 1..Len(items) :
                               FlatRecordOf(r.lists[name][k], items[k].n)

C21_Witness ==
  /\ op.kind = "serialise"
  /\ op.inst = 1
  /\ op.val = Bool(1)
  /\ calls = MaxOps
  /\ Len(op.ret.lists["children"]) = MaxChildren
  /\ op.ret.lists["children"][1].fields["name"] = Str(1)
  /\ op.ret.lists["children"][MaxChildren].n = 1 + MaxChildren
  /\ op.ret.fields["setTest"] = Num(200)
  /\ op.ret.fields["getTest"] = Mail(Stored(1, "anyTest"), Undef)

\* what the declared setter of a property makes of an input
Transformed(i, name, v) ==
  IF Declaration(i, name).set = "setTestSet" THEN Times100(v) ELSE v

\* the state after a successful assignment or a read of a declared property
C22_After ==
  IsProperty(op.inst, op.name)
  => /\ (op.kind = "assign" /\ thrown.kind = "none")
        => /\ Stored(op.inst, op.name) = Transformed(op.inst, op.name, op.val)
           /\ (op.name = "edit" /\ Truthy(op.val))
              => \E j \in 1..Len(log) :
                   /\ log[j].ev = "edit"
                   /\ log[j].inst = op.inst
                   /\ log[j].name = defs[heap[op.inst].def].EDIT_EVENT
     /\ op.kind = "read"
        => /\ op.ret = Reads(op.inst, op.name)
           /\ log = <<>>
           /\ thrown.kind = "none"

\* C22: a successful assignment of v to a declared property stores what the
\* declared setter makes of v (v itself without a setter), a read returns what
\* the declared getter makes of the stored value (the stored value without a
\* getter), both run with the instance as receiver; a read changes no stored
\* value of any instance and emits no event.
C22_TransformsApplyOnWriteAndRead ==
  [][/\ C22_After'
     /\ op'.kind = "read"
        => heap' = heap /\ colls' = colls /\ decls' = decls /\ registry' = registry]_vars

C22_Witness ==
  /\ op.kind = "read"
  /\ op.name = "setTest"
  /\ calls = MaxOps
  /\ Stored(op.inst, "setTest") = Num(200)
  /\ op.ret = Num(200)
  /\ Reads(op.inst, "getTest") = Mail(Str(1), Undef)

\* the instances whose construction recorded a violation in this call
Violators == {thrown.errs[j].inst : j \in 1..Len(thrown.errs)}

\* C23: a construction emits the registry add of a nested child only if the
\* child's own raw data produced no violation, and after a failed top-level
\* construction no instance that recorded a violation is in the registry.
C23_ViolatorsAreNotRegistered ==
  op.kind = "init"
  => \A i \in Violators \cap 1..Len(heap) :
       /\ i \notin registry
       /\ At(log, "registry", i, "registry:add") = {}

\* the instances a call has materialized accessors for
Materialized == {log[j].inst : j \in {m \in 1..Len(log) : log[m].ev = "define"}}

\* every name a definition declares: properties, has-many and has-one
Declared(i) ==
  Keys(defs[heap[i].def].properties) \cup Keys(defs[heap[i].def].hasMany)
    \cup Keys(defs[heap[i].def].hasOne)

\* C24: within a construction every declared property, has-many and has-one
\* accessor of an instance is materialized, its default seeded, before the
\* first value is assigned to that instance; and a raw value of a watched
\* property runs the observer declared on another property, whichever of the
\* two is declared first.
C24_AccessorsBeforeRawValues ==
  op.kind = "init"
  => /\ \A i \in Materialized :
          \A name \in Declared(i) :
            \E d \in At(log, "define", i, name) :
              /\ \A j \in 1..Len(log) : (log[j].ev = "store" /\ log[j].inst = i) => d < j
              /\ name \in {"edit", "locked"} => log[d].val = Bool(0)
              /\ name \in Keys(defs[heap[i].def].hasMany) => log[d].val.k = "collection"
     /\ op.inst \in Materialized
     /\ (/\ thrown.kind = "none"
         /\ hasOwnKey("anyTest", op.data)
         /\ {"anyTest", "onTest"} \subseteq Declared(op.inst))
        => \E s \in At(log, "store", op.inst, "anyTest") :
             \E o \in At(log, "observer", op.inst, "onTestOnAnyTest") :
               \E t \in At(log, "store", op.inst, "onTest") :
                 /\ s < o
                 /\ o < t
                 /\ log[t].val = IF field(op.data, "anyTest") = Num(100)
                                  THEN Bool(1) ELSE Bool(0)

C24_Witness ==
  /\ op.kind = "init"
  /\ op.name = DerivedName(1)
  /\ thrown.kind = "none"
  /\ Entry(defs[op.name].properties, "onTest") = defs[op.name].properties[1]
  /\ field(op.data, "anyTest") = Num(100)
  /\ hasOwnKey("onTest", op.data)
  /\ Stored(op.inst, "onTest") = Bool(1)
  /\ Len(list(op.data, "children")) = MaxChildren

\* C25: a sync() whose property is declared with a model definition as type
\* constructs an instance of that definition from the plain-data payload and
\* assigns and stores that instance; a sync() whose property has a primitive
\* type or none constructs nothing and stores the payload as given.
C25_SyncInstantiatesModelTypedPayload ==
  (op.kind = "sync" /\ IsProperty(op.inst, op.name))
  => LET type == Declaration(op.inst, op.name).type
         new == Len(heap)
     IN  IF type.t = "model"
         THEN (op.val.k \in {"object", "undefined"} /\ ValidChild(op.val))
              => /\ thrown.kind = "none"
                 /\ Stored(op.inst, op.name) = Ref(new)
                 /\ heap[new].def = type.d
                 /\ At(log, "define", new, "id") # {}
                 /\ At(log, "registry", new, "registry:add") # {}
                 /\ \A f \in DOMAIN rawOf(op.val).fields :
                      Stored(new, f) = rawOf(op.val).fields[f]
                 /\ \E s \in At(log, "store", op.inst, op.name) : log[s].val = Ref(new)
         ELSE /\ Materialized = {}
              /\ thrown.kind = "none" => Stored(op.inst, op.name) = op.val
              /\ \A s \in At(log, "store", op.inst, op.name) : log[s].val = op.val

C25_Witness ==
  /\ op.kind = "sync"
  /\ op.name = "modelTest"
  /\ op.val = Obj(1)
  /\ thrown.kind = "none"
  /\ Stored(op.inst, "modelTest") = Ref(Len(heap))
  /\ Stored(Len(heap), "name") = Str(1)
  /\ heap[Len(heap)].def = "ChildModel"

\* C26: after a successful assignment the store of the instance is a frame
\* that the assignment layered onto the previous store, not the object the
\* instance was created with.
C26_AssignmentLayersNewFrame ==
  (op.kind = "assign" /\ thrown.kind = "none" /\ IsProperty(op.inst, op.name))
  => heap[op.inst].frame # 0

\* the writes a call made, in order: the instance and the property of each
Writes ==
  LET stores == SelectSeq(log, LAMBDA e : e.ev = "store")
  IN  [j \in 1..Len(stores) |-> <<stores[j].inst, stores[j].name>>]

\* C27: an assignment of a boolean to edit returns, having written edit and
\* then, through one run of one observer, locked, and nothing else, also when
\* the same value is assigned again.
C27_EditCascadeIsOneWrite ==
  (op.kind = "assign" /\ op.name = "edit" /\ op.val.k = "boolean")
  => /\ thrown.kind = "none"
     /\ Writes = <<<<op.inst, "edit">>, <<op.inst, "locked">>>>
     /\ Cardinality({j \in 1..Len(log) : log[j].ev = "observer"}) = 1
     /\ Cardinality({j \in 1..Len(log) : log[j].ev = "local"}) = 2

C27_Witness ==
  /\ op.kind = "assign"
  /\ op.name = "edit"
  /\ op.val = Bool(0)
  /\ thrown.kind = "none"
  /\ calls = MaxOps
  /\ Len(Writes) = 2
  /\ Stored(op.inst, "edit") = Bool(0)
  /\ Stored(op.inst, "locked") = Bool(0)

\* C28: during a construction every value stored in an enumerable sync-enabled
\* property is followed at once by its local event and its sync event, before
\* the registry add of the instance; the sync events are in the log also when
\* a later field or a child makes the construction throw the aggregate.
C28_ConstructionSyncsAtOnce ==
  op.kind = "init"
  => \A s \in 1..Len(log) :
       (/\ log[s].ev = "store"
        /\ IsProperty(log[s].inst, log[s].name)
        /\ Declaration(log[s].inst, log[s].name).sync
        /\ Accessor(World, log[s].inst, log[s].name).enumerable)
       => /\ s + 2 <= Len(log)
          /\ log[s + 1].ev = "local"
          /\ log[s + 2].ev = "sync"
          /\ log[s + 2].inst = log[s].inst
          /\ log[s + 2].name = log[s].name
          /\ log[s + 2].val = log[s].val
          /\ \A r \in At(log, "registry", log[s].inst, "registry:add") : s + 2 < r

C28_Witness ==
  /\ op.kind = "init"
  /\ thrown.kind = "array"
  /\ At(log, "sync", 1, "syncTest") # {}
  /\ \E j \in 1..Len(thrown.errs) : thrown.errs[j].inst = 2
  /\ \A j \in 1..Len(thrown.errs) : thrown.errs[j].inst # 1
  /\ 1 \notin registry

\* the state after an assignment of a truthy value to edit
C29_After ==
  (op.kind = "assign" /\ op.name = "edit" /\ Truthy(op.val))
  => /\ {j \in 1..Len(log) : log[j].ev = "edit"} = {1}
     /\ log[1].inst = op.inst
     /\ log[1].name = defs[heap[op.inst].def].EDIT_EVENT
     /\ op.val.k # "boolean"
        => /\ thrown.kind = "error"
           /\ thrown.errs[1].what = "TypeViolation"
           /\ Len(log) = 1

\* C29: the setter of edit runs before the type is enforced: an assignment of
\* a truthy value to edit emits the edit event once, before anything else; for
\* a truthy value that is not a boolean the assignment then throws a type
\* violation and leaves edit and locked, and every other stored value, as they
\* were.
C29_SetterRunsBeforeEnforce ==
  [][/\ C29_After'
     /\ (op'.kind = "assign" /\ op'.name = "edit" /\ Truthy(op'.val)
           /\ op'.val.k # "boolean")
        => \A i \in 1..Len(heap) : heap'[i].data = heap[i].data]_vars

C29_Witness ==
  /\ op.kind = "assign"
  /\ op.name = "edit"
  /\ op.val = Num(1)
  /\ thrown.kind = "error"
  /\ calls = MaxOps
  /\ log # <<>>
  /\ log[1].ev = "edit"
  /\ Stored(op.inst, "edit") = Bool(1)
  /\ Stored(op.inst, "locked") = Bool(1)

\* C30: a sync() call emits no sync event of the instance it is called on and
\* none that carries its id, neither for the property of the payload nor for a
\* sync-enabled property an observer writes during the call.
C30_NoSyncEventDuringInboundSync ==
  op.kind = "sync"
  => \A j \in 1..Len(log) :
       log[j].ev = "sync"
       => /\ log[j].inst # op.inst
          /\ log[j].id # Stored(op.inst, "id")

C30_Witness ==
  /\ op.kind = "sync"
  /\ op.name = "edit"
  /\ op.val = Bool(1)
  /\ thrown.kind = "none"
  /\ Declaration(op.inst, "locked").sync
  /\ At(log, "store", op.inst, "locked") # {}
  /\ Stored(op.inst, "locked") = Bool(1)
  /\ At(log, "sync", op.inst, "locked") = {}

\* C31: when a successful assignment to a sync-enabled property P runs an
\* observer that writes a sync-enabled property Q of the same instance, the
\* store, the local event and the sync event of Q come, in this order, after
\* the local event of P and before the sync event of P.
C31_NestedWriteSyncsFirst ==
  (/\ op.kind = "assign"
   /\ thrown.kind = "none"
   /\ IsProperty(op.inst, op.name)
   /\ Declaration(op.inst, op.name).sync)
  => LET i == op.inst
     IN  \A k \in 1..Len(heap[i].listeners) :
           LET q == ObserverTarget(heap[i].listeners[k].obs)
           IN  (/\ heap[i].listeners[k].event = op.name
                /\ IsProperty(i, q)
                /\ Declaration(i, q).sync)
               => \E l \in At(log, "local", i, op.name) :
                    \E s \in At(log, "store", i, q) :
                      \E m \in At(log, "local", i, q) :
                        \E y \in At(log, "sync", i, q) :
                          /\ l < s
                          /\ s < m
                          /\ m < y
                          /\ \A z \in At(log, "sync", i, op.name) : y < z
                          /\ At(log, "sync", i, op.name) # {}

C31_Witness ==
  /\ op.kind = "assign"
  /\ op.name = "edit"
  /\ op.val = Bool(1)
  /\ thrown.kind = "none"
  /\ Declaration(op.inst, "edit").sync
  /\ Declaration(op.inst, "locked").sync
  /\ calls = MaxOps
  /\ \E y \in At(log, "sync", op.inst, "locked") :
       \E z \in At(log, "sync", op.inst, "edit") : y < z

\* the declared properties of an instance that are declared enumerable: false
Hidden(i) == Keys(defs[heap[i].def].properties) \ Enumerable(i)

\* C32: a construction assigns raw values only to the enumerable declared
\* properties and to id (and to the relations): a raw value for edit is
\* ignored, edit and locked keep their default, and neither a store, a local
\* event, a sync event, an edit event nor an error comes from it.
C32_HiddenPropertiesIgnoreRawValues ==
  op.kind = "init"
  => /\ \A j \in 1..Len(log) :
          /\ log[j].ev \in {"store", "local", "sync"}
             => log[j].name \notin Hidden(log[j].inst) \ {"id"}
          /\ log[j].ev # "edit"
     /\ \A j \in 1..Len(thrown.errs) :
          thrown.errs[j].inst # 0
          => thrown.errs[j].name \notin Hidden(thrown.errs[j].inst) \ {"id"}
     /\ \A i \in Materialized :
          \A name \in Hidden(i) \ {"id"} : Stored(i, name) = Declaration(i, name).defaultValue

C32_Witness ==
  /\ op.kind = "init"
  /\ thrown.kind = "none"
  /\ field(op.data, "edit") = Bool(1)
  /\ field(op.data, "syncTest") = Str(1)
  /\ Stored(1, "syncTest") = Str(1)
  /\ Stored(1, "edit") = Bool(0)
  /\ Stored(1, "locked") = Bool(0)
  /\ Hidden(1) = {"id", "edit", "locked"}

\* what createProperty seeds a declared property with: what the declared setter
\* makes of the default
Seed(i, name) == Transformed(i, name, Declaration(i, name).defaultValue)

\* C33: a declared default is seeded by writing what the setter makes of it
\* into the store: the accessor holds it when it is materialized, also when it
\* is not of the declared type; no store through the write pipeline, no local
\* event, no sync event and no observer run of the instance comes before its
\* last accessor is materialized; a default that no raw value and no observer
\* replaces is what the property reads afterwards.
C33_DefaultsAreSeededDirectly ==
  op.kind = "init"
  => /\ thrown.kind = "none"
     /\ \A i \in Materialized :
          /\ \A name \in Keys(defs[heap[i].def].properties) :
               Declaration(i, name).defaultValue # Undef
               => /\ \E d \in At(log, "define", i, name) : log[d].val = Seed(i, name)
                  /\ (At(log, "store", i, name) = {} /\ i = op.inst)
                     => /\ Stored(i, name) = Seed(i, name)
                        /\ get(World, i, name) = Seed(i, name)
          /\ \A j \in 1..Len(log) :
               (log[j].inst = i /\ log[j].ev \in {"store", "local", "sync", "observer"})
               => \A d \in 1..Len(log) :
                    (log[d].inst = i /\ log[d].ev = "define") => d < j

C33_Witness ==
  /\ op.kind = "init"
  /\ op.name = DerivedName(1)
  /\ thrown.kind = "none"
  /\ op.data = Fields("syncTest" :> Str(2))
  /\ Declaration(op.inst, "stringTest").type = Prim("string")
  /\ Stored(op.inst, "stringTest") = Num(1)
  /\ Stored(op.inst, "setTest") = Num(100)
  /\ Stored(op.inst, "anyTest") = Num(100)
  /\ Stored(op.inst, "onTest") = Undef
  /\ Stored(op.inst, "syncTest") = Str(2)

====
